---- MODULE Spec2Model ----
(***************************************************************************)
(* Model of src/app.py: the Template Management API (Flask handlers over   *)
(* three MongoDB collections: users, templates, tasks).                    *)
(*                                                                         *)
(* A request body is the value request.get_json() returned: a function    *)
(* from the JSON object's keys to values.  A handler that issues one store *)
(* operation is one action; register, PUT /task/<id> and DELETE /task/<id> *)
(* read the store and then write it in a second operation, so they are two *)
(* actions each, and other requests may run in between.  `last' is the     *)
(* most recent request together with the response it got.                  *)
(*                                                                         *)
(* Token validation (jwt_required) happens before a handler runs: an       *)
(* authenticated handler is only ever entered with an identity for which   *)
(* login issued a token.  Token expiry (one day) is far longer than the    *)
(* clock range of the model and is left out.                               *)
(***************************************************************************)
EXTENDS Integers, FiniteSets, Sequences, TLC

\* ---------------------------------------------------------------- bounds
MaxUsers == 2        \* user documents ever inserted
MaxDocs == 1         \* template and task documents ever inserted, together
MaxClock == 1        \* readings of the millisecond clock: 0..MaxClock
NumWorkers == 2      \* requests that can be inside a handler at once

Workers == 1..NumWorkers

\* The ObjectIds the store generates: all distinct, here named by the
\* collection that asked and the number of the insert.
UserOids == {<<"users", n>> : n \in 1..MaxUsers}

TemplateOids == {<<"templates", n>> : n \in 1..MaxDocs}

TaskOids == {<<"tasks", n>> : n \in 1..MaxDocs}

\* ------------------------------------------------- ObjectId and strings
\* A string offered as an id: 24 hex digits in lower case, the same digits
\* in upper case, or something that is not 24 hex digits.
BadIdString == [oid |-> <<>>, form |-> "bad"]

\* str(ObjectId): always the lower-case hex form.
Str(oid) == [oid |-> oid, form |-> "lower"]

Upper(oid) == [oid |-> oid, form |-> "upper"]

\* ObjectId(s) raises InvalidId unless s is 24 hex digits (either case).
ObjectIdValid(s) == s.form \in {"lower", "upper"}

\* ObjectId(s): the 12 bytes the hex digits denote, whichever their case.
ObjectId(s) == s.oid

IdStrings(oids) == {Str(o) : o \in oids} \cup {Upper(o) : o \in oids} \cup {BadIdString}

\* ----------------------------------------------------------- primitives
\* werkzeug generate_password_hash: an opaque value, never the plaintext.
generate_password_hash(p) == <<"pbkdf2", p>>

check_password_hash(h, p) == h = <<"pbkdf2", p>>

\* flask_jwt_extended create_access_token: a signed token carrying identity.
create_access_token(identity) == [identity |-> identity]

\* datetime.isoformat()
isoformat(dt) == <<"iso", dt[2]>>

\* flask's JSON provider writes a datetime left in a document as an HTTP date.
http_date(dt) == <<"http_date", dt[2]>>

EmptyBody == [f \in {} |-> 0]

\* `not data': None or an empty JSON object.
NoData(data) == DOMAIN data = {}

\* all(field in data for field in required_fields)
HasFields(data, required_fields) == required_fields \subseteq DOMAIN data

\* A dict with some keys reassigned (d[k] = v) or added.
With(d, kv) ==
  [f \in DOMAIN d \cup DOMAIN kv |-> IF f \in DOMAIN kv THEN kv[f] ELSE d[f]]

\* The write a replace_one would make: the update document takes the place
\* of the stored one, which keeps only its _id.
replace_one(doc, upd) ==
  [f \in {"_id"} \cup DOMAIN upd |-> IF f \in DOMAIN upd THEN upd[f] ELSE doc[f]]

\* MongoDB $set: the listed fields are written, the others kept.
Set(doc, upd) ==
  [f \in DOMAIN doc \cup DOMAIN upd |-> IF f \in DOMAIN upd THEN upd[f] ELSE doc[f]]

\* UpdateResult.matched_count: the documents the filter matched, changed or
\* not.
matched_count(matched, written) == Cardinality(matched)

\* UpdateResult.modified_count: the matched documents the write changed.
modified_count(matched, written) == Cardinality(written \ matched)

\* DeleteResult.deleted_count
deleted_count(matched) == Cardinality(matched)

\* ---------------------------------------------------------------- state
VARIABLES
  users,      \* db.users: set of documents
  templates,  \* db.templates
  tasks,      \* db.tasks
  tokens,     \* identities for which login has issued an access token
  clock,      \* datetime.utcnow(), in the store's millisecond units
  nextOid,    \* per collection: the number of its next insert
  req,        \* per worker: Idle, or the request it is in the middle of
  last        \* the last completed request and its response

vars == <<users, templates, tasks, tokens, clock, nextOid, req, last>>

Idle == [pc |-> "idle"]

utcnow == <<"datetime", clock>>

Init ==
  /\ users = {}
  /\ templates = {}
  /\ tasks = {}
  /\ tokens = {}
  /\ clock = 0
  /\ nextOid = [c \in {"users", "templates", "tasks"} |-> 1]
  /\ req = [w \in Workers |-> Idle]
  /\ last = [op |-> "none", status |-> 0]

\* jsonify(body), status
Respond(op, caller, id, data, status, body) ==
  last' = [op |-> op, caller |-> caller, id |-> id, data |-> data,
           status |-> status, body |-> body]

\* Inserts still to come from requests that are past their check.
PendingInserts == Cardinality({w \in Workers : req[w].pc = "register_insert"})

\* The bounds on the documents the collections are given.
CanInsert(coll) ==
  IF coll = "users"
    THEN nextOid.users + PendingInserts <= MaxUsers
    ELSE (nextOid.templates - 1) + (nextOid.tasks - 1) < MaxDocs

\* insert_one: the store generates the _id.
NewOid(coll) == <<coll, nextOid[coll]>>

Inserted(coll) == nextOid' = [nextOid EXCEPT ![coll] = @ + 1]

Anonymous == [oid |-> <<>>, form |-> "anonymous"]

NoId == [oid |-> <<>>, form |-> "none"]

IdleWorker == \E w \in Workers : req[w] = Idle

\* A request that arrives is given to the first idle worker.
Dispatch(w) == req[w] = Idle /\ \A v \in 1..(w - 1) : req[v] # Idle

\* ------------------------------------------------------------- requests
RegisterBodies ==
  { [first_name |-> "Ann", last_name |-> "Lee", email |-> "e1", password |-> "p1"],
    [first_name |-> "Bob", last_name |-> "Ray", email |-> "e1", password |-> "p2"],
    [first_name |-> "Bob", last_name |-> "Ray", email |-> "e2", password |-> "p2"],
    [email |-> "e1", password |-> "p1"],
    EmptyBody }

LoginBodies ==
  [email : {"e1", "e2"}, password : {"p1", "p2"}] \cup {[email |-> "e1"], EmptyBody}

TemplateBodies ==
  { [template_name |-> "n1", subject |-> "s1", body |-> "b1"],
    [template_name |-> "n2", subject |-> "s2", body |-> "b2"],
    [template_name |-> "n1", subject |-> "s1"],
    EmptyBody }

TaskBodies ==
  { [assigned_user |-> s, task_date |-> "d1", task_time |-> "t1", task_msg |-> "m1"]
      : s \in IdStrings(UserOids) }
  \cup { [assigned_user |-> Str(<<"users", 1>>), task_msg |-> "m1"],
         EmptyBody }

TaskUpdateBodies == { [is_completed |-> 0], [is_completed |-> 1], EmptyBody }

\* ------------------------------------------------------------- register
\* The lookup made on a key the documents do not have.
users_by_mail(email) == {u \in users : "mail" \in DOMAIN u /\ u.mail = email}

\* db.users.find_one({'email': email})
users_by_email(email) == {u \in users : u.email = email}

\* Lines 46-58: validation and the existence check.
register_check(w, data) ==
  /\ Dispatch(w)
  /\ IF NoData(data)
       THEN /\ Respond("register", Anonymous, NoId, data, 400,
                       [message |-> "No input data provided"])
            /\ UNCHANGED req
     ELSE IF ~HasFields(data, {"first_name", "last_name", "email", "password"})
       THEN /\ Respond("register", Anonymous, NoId, data, 400,
                       [message |-> "Missing required fields"])
            /\ UNCHANGED req
     ELSE IF users_by_email(data.email) # {}
       THEN /\ Respond("register", Anonymous, NoId, data, 400,
                       [message |-> "Email already registered"])
            /\ UNCHANGED req
     ELSE /\ CanInsert("users")
          /\ req' = [req EXCEPT ![w] = [pc |-> "register_insert", data |-> data]]
          /\ UNCHANGED last
  /\ UNCHANGED <<users, templates, tasks, tokens, clock, nextOid>>

\* Lines 60-66, with the _id insert_one adds.
new_user(data) ==
  [_id |-> NewOid("users"),
   first_name |-> data.first_name,
   last_name |-> data.last_name,
   email |-> data.email,
   password |-> generate_password_hash(data.password),
   created_at |-> utcnow]

\* The insert made only if the email is still unused (a unique index on
\* email would do this).
register_insert_if_absent(w) ==
  /\ req[w].pc = "register_insert"
  /\ LET data == req[w].data
     IN  IF users_by_email(data.email) # {}
           THEN /\ Respond("register", Anonymous, NoId, data, 400,
                           [message |-> "Email already registered"])
                /\ UNCHANGED <<users, nextOid>>
           ELSE /\ users' = users \cup {new_user(data)}
                /\ Respond("register", Anonymous, NoId, data, 201,
                           [message |-> "User registered successfully"])
                /\ Inserted("users")
  /\ req' = [req EXCEPT ![w] = Idle]
  /\ UNCHANGED <<templates, tasks, tokens, clock>>

\* Lines 60-69: the user document is built and inserted.
register_insert(w) ==
  /\ req[w].pc = "register_insert"
  /\ LET data == req[w].data
         user == new_user(data)
     IN  /\ users' = users \cup {user}
         /\ Respond("register", Anonymous, NoId, data, 201,
                    [message |-> "User registered successfully"])
  /\ Inserted("users")
  /\ req' = [req EXCEPT ![w] = Idle]
  /\ UNCHANGED <<templates, tasks, tokens, clock>>

\* ---------------------------------------------------------------- login
\* Line 85: find_one returns one of the documents that match (the store
\* promises no order among several), or None.
login(data) ==
  /\ IdleWorker
  /\ IF NoData(data)
       THEN /\ Respond("login", Anonymous, NoId, data, 400,
                       [message |-> "No input data provided"])
            /\ UNCHANGED tokens
     ELSE IF ~HasFields(data, {"email", "password"})
       THEN /\ Respond("login", Anonymous, NoId, data, 400,
                       [message |-> "Missing email or password"])
            /\ UNCHANGED tokens
     ELSE IF users_by_email(data.email) = {}
       THEN /\ Respond("login", Anonymous, NoId, data, 401,
                       [message |-> "Invalid credentials"])
            /\ UNCHANGED tokens
     ELSE \E user \in users_by_email(data.email) :
            IF check_password_hash(user.password, data.password)
              THEN /\ Respond("login", Anonymous, NoId, data, 200,
                        [message |-> "Login successful",
                         access_token |-> create_access_token(Str(user._id))])
                   /\ tokens' = tokens \cup {Str(user._id)}
              ELSE /\ Respond("login", Anonymous, NoId, data, 401,
                              [message |-> "Invalid credentials"])
                   /\ UNCHANGED tokens
  /\ UNCHANGED <<users, templates, tasks, clock, nextOid, req>>

\* ------------------------------------------------------------ templates
\* Lines 113-119, with the _id insert_one adds.
new_template(current_user, data) ==
  [_id |-> NewOid("templates"),
   user_id |-> current_user,
   template_name |-> data.template_name,
   subject |-> data.subject,
   body |-> data.body,
   created_at |-> utcnow]

\* Lines 103-127.
create_template(current_user, data) ==
  /\ IdleWorker
  /\ current_user \in tokens
  /\ IF NoData(data)
       THEN /\ Respond("create_template", current_user, NoId, data, 400,
                       [message |-> "No input data provided"])
            /\ UNCHANGED <<templates, nextOid>>
     ELSE IF ~HasFields(data, {"template_name", "subject", "body"})
       THEN /\ Respond("create_template", current_user, NoId, data, 400,
                       [message |-> "Missing required fields"])
            /\ UNCHANGED <<templates, nextOid>>
     ELSE /\ CanInsert("templates")
          /\ LET template == new_template(current_user, data)
             IN  /\ templates' = templates \cup {template}
                 /\ Respond("create_template", current_user, NoId, data, 201,
                            [message |-> "Template created", id |-> Str(template._id)])
          /\ Inserted("templates")
  /\ UNCHANGED <<users, tasks, tokens, clock, req>>

\* Lines 137-143 and 170-175: _id to str, datetimes to ISO strings.
serialize_template(template) ==
  With(template,
      [f \in {"_id", "created_at", "updated_at"} \cap DOMAIN template |->
         IF f = "_id" THEN Str(template._id) ELSE isoformat(template[f])])

\* db.templates.find({'user_id': current_user})
templates_of(current_user) == {t \in templates : t.user_id = current_user}

\* Lines 131-147.
get_all_templates(current_user) ==
  /\ IdleWorker
  /\ current_user \in tokens
  /\ Respond("get_all_templates", current_user, NoId, EmptyBody, 200,
             {serialize_template(t) : t \in templates_of(current_user)})
  /\ UNCHANGED <<users, templates, tasks, tokens, clock, nextOid, req>>

\* The filter without its user_id clause: {'_id': template_obj_id}.
template_filter_by_id(template_obj_id, current_user) ==
  {t \in templates : t._id = template_obj_id}

\* The filter {'_id': template_obj_id, 'user_id': current_user}.
template_filter(template_obj_id, current_user) ==
  {t \in templates : t._id = template_obj_id /\ t.user_id = current_user}

\* Lines 161-177.
template_GET(current_user, template_id) ==
  /\ IdleWorker
  /\ current_user \in tokens
  /\ IF ~ObjectIdValid(template_id)
       THEN Respond("template_GET", current_user, template_id, EmptyBody, 400,
                    [message |-> "Invalid template ID format"])
     ELSE LET found == template_filter(ObjectId(template_id), current_user)
          IN  IF found = {}
                THEN Respond("template_GET", current_user, template_id, EmptyBody, 404,
                             [message |-> "Template not found"])
                ELSE \E template \in found :
                       Respond("template_GET", current_user, template_id, EmptyBody, 200,
                               serialize_template(template))
  /\ UNCHANGED <<users, templates, tasks, tokens, clock, nextOid, req>>

\* Lines 191-196: the fields the update writes.
template_update(data) ==
  [template_name |-> data.template_name,
   subject |-> data.subject,
   body |-> data.body,
   updated_at |-> utcnow]

\* Lines 179-202.  modified_count counts documents the write changed.
template_PUT(current_user, template_id, data) ==
  /\ IdleWorker
  /\ current_user \in tokens
  /\ IF ~ObjectIdValid(template_id)
       THEN /\ Respond("template_PUT", current_user, template_id, data, 400,
                       [message |-> "Invalid template ID format"])
            /\ UNCHANGED templates
     ELSE IF NoData(data)
       THEN /\ Respond("template_PUT", current_user, template_id, data, 400,
                       [message |-> "No input data provided"])
            /\ UNCHANGED templates
     ELSE IF ~HasFields(data, {"template_name", "subject", "body"})
       THEN /\ Respond("template_PUT", current_user, template_id, data, 400,
                       [message |-> "Missing required fields"])
            /\ UNCHANGED templates
     ELSE LET matched == template_filter(ObjectId(template_id), current_user)
              written == {Set(t, template_update(data)) : t \in matched}
          IN  /\ templates' = (templates \ matched) \cup written
              /\ IF modified_count(matched, written) = 0
                   THEN Respond("template_PUT", current_user, template_id, data, 404,
                                [message |-> "Template not found"])
                   ELSE Respond("template_PUT", current_user, template_id, data, 200,
                                [message |-> "Template updated successfully"])
  /\ UNCHANGED <<users, tasks, tokens, clock, nextOid, req>>

\* Lines 204-213.
template_DELETE(current_user, template_id) ==
  /\ IdleWorker
  /\ current_user \in tokens
  /\ IF ~ObjectIdValid(template_id)
       THEN /\ Respond("template_DELETE", current_user, template_id, EmptyBody, 400,
                       [message |-> "Invalid template ID format"])
            /\ UNCHANGED templates
     ELSE LET matched == template_filter(ObjectId(template_id), current_user)
          IN  /\ templates' = templates \ matched
              /\ IF deleted_count(matched) = 0
                   THEN Respond("template_DELETE", current_user, template_id, EmptyBody, 404,
                                [message |-> "Template not found"])
                   ELSE Respond("template_DELETE", current_user, template_id, EmptyBody, 200,
                                [message |-> "Template deleted successfully"])
  /\ UNCHANGED <<users, tasks, tokens, clock, nextOid, req>>

\* ---------------------------------------------------------------- tasks
\* db.users.find_one({'_id': oid})
users_by_id(oid) == {u \in users : u._id = oid}

\* The task document with task_date and task_time taken from each other's
\* field.
new_task_swapped(current_user, data) ==
  [_id |-> NewOid("tasks"),
   assigned_by |-> current_user,
   assigned_user |-> data.assigned_user,
   task_date |-> data.task_time,
   task_time |-> data.task_date,
   task_msg |-> data.task_msg,
   is_completed |-> 0,
   created_at |-> utcnow]

\* Lines 237-245, with the _id insert_one adds.
new_task(current_user, data) ==
  [_id |-> NewOid("tasks"),
   assigned_by |-> current_user,
   assigned_user |-> data.assigned_user,
   task_date |-> data.task_date,
   task_time |-> data.task_time,
   task_msg |-> data.task_msg,
   is_completed |-> 0,
   created_at |-> utcnow]

\* Lines 223-253.  ObjectId(data['assigned_user']) is not guarded: InvalidId
\* reaches the handler's `except Exception' and becomes a 500.
create_task(current_user, data) ==
  /\ IdleWorker
  /\ current_user \in tokens
  /\ IF NoData(data)
       THEN /\ Respond("create_task", current_user, NoId, data, 400,
                       [message |-> "No input data provided"])
            /\ UNCHANGED <<tasks, nextOid>>
     ELSE IF ~HasFields(data, {"assigned_user", "task_date", "task_time", "task_msg"})
       THEN /\ Respond("create_task", current_user, NoId, data, 400,
                       [message |-> "Missing required fields"])
            /\ UNCHANGED <<tasks, nextOid>>
     ELSE IF ~ObjectIdValid(data.assigned_user)
       THEN /\ Respond("create_task", current_user, NoId, data, 500,
                       [message |-> "is not a valid ObjectId"])
            /\ UNCHANGED <<tasks, nextOid>>
     ELSE IF users_by_id(ObjectId(data.assigned_user)) = {}
       THEN /\ Respond("create_task", current_user, NoId, data, 404,
                       [message |-> "Assigned user not found"])
            /\ UNCHANGED <<tasks, nextOid>>
     ELSE /\ CanInsert("tasks")
          /\ LET task == new_task(current_user, data)
             IN  /\ tasks' = tasks \cup {task}
                 /\ Respond("create_task", current_user, NoId, data, 201,
                            [message |-> "Task created", id |-> Str(task._id)])
          /\ Inserted("tasks")
  /\ UNCHANGED <<users, templates, tokens, clock, req>>

\* f"{user['first_name']} {user['last_name']}"
full_name(user) == <<user.first_name, " ", user.last_name>>

\* Lines 267-270 and 303-306 succeed only if both lookups return a user.
names_resolve(task) ==
  /\ ObjectIdValid(task.assigned_by)
  /\ ObjectIdValid(task.assigned_user)
  /\ users_by_id(ObjectId(task.assigned_by)) # {}
  /\ users_by_id(ObjectId(task.assigned_user)) # {}

\* Lines 264-273 and 300-309: ids to str, the two display names added,
\* created_at to an ISO string; updated_at is left to the JSON provider.
serialize_task(task) ==
  LET assigned_by_user == CHOOSE u \in users_by_id(ObjectId(task.assigned_by)) : TRUE
      assigned_to_user == CHOOSE u \in users_by_id(ObjectId(task.assigned_user)) : TRUE
  IN  With(With(task,
              [_id |-> Str(task._id),
               assigned_by |-> task.assigned_by,
               assigned_user |-> task.assigned_user,
               assigned_by_name |-> full_name(assigned_by_user),
               assigned_to_name |-> full_name(assigned_to_user),
               created_at |-> isoformat(task.created_at)]),
          [f \in {"updated_at"} \cap DOMAIN task |-> http_date(task[f])])

\* db.tasks.find({'assigned_user': current_user})
tasks_of(current_user) == {t \in tasks : t.assigned_user = current_user}

\* Lines 257-277.
get_tasks(current_user) ==
  /\ IdleWorker
  /\ current_user \in tokens
  /\ IF \A t \in tasks_of(current_user) : names_resolve(t)
       THEN Respond("get_tasks", current_user, NoId, EmptyBody, 200,
                    {serialize_task(t) : t \in tasks_of(current_user)})
       ELSE Respond("get_tasks", current_user, NoId, EmptyBody, 500,
                    [message |-> "'NoneType' object is not subscriptable"])
  /\ UNCHANGED <<users, templates, tasks, tokens, clock, nextOid, req>>

\* The filter on the assigner: {'_id': task_obj_id, 'assigned_by': current_user}.
task_filter_by_assigner(task_obj_id, current_user) ==
  {t \in tasks : t._id = task_obj_id /\ t.assigned_by = current_user}

\* The filter {'_id': task_obj_id, 'assigned_user': current_user}.
task_filter(task_obj_id, current_user) ==
  {t \in tasks : t._id = task_obj_id /\ t.assigned_user = current_user}

\* Lines 291-311.
task_GET(current_user, task_id) ==
  /\ IdleWorker
  /\ current_user \in tokens
  /\ IF ~ObjectIdValid(task_id)
       THEN Respond("task_GET", current_user, task_id, EmptyBody, 400,
                    [message |-> "Invalid task ID format"])
     ELSE LET found == task_filter(ObjectId(task_id), current_user)
          IN  IF found = {}
                THEN Respond("task_GET", current_user, task_id, EmptyBody, 404,
                             [message |-> "Task not found"])
                ELSE \E task \in found :
                       IF names_resolve(task)
                         THEN Respond("task_GET", current_user, task_id, EmptyBody, 200,
                                      serialize_task(task))
                         ELSE Respond("task_GET", current_user, task_id, EmptyBody, 500,
                                      [message |-> "'NoneType' object is not subscriptable"])
  /\ UNCHANGED <<users, templates, tasks, tokens, clock, nextOid, req>>

\* The response of a handler that holds a `task' it read earlier.
RespondTask(op, caller, id, data, status, body, task) ==
  last' = [op |-> op, caller |-> caller, id |-> id, data |-> data,
           status |-> status, body |-> body, task |-> task]

\* Lines 313-325: validation and find_one.
task_PUT_find(w, current_user, task_id, data) ==
  /\ Dispatch(w)
  /\ current_user \in tokens
  /\ IF ~ObjectIdValid(task_id)
       THEN /\ Respond("task_PUT", current_user, task_id, data, 400,
                       [message |-> "Invalid task ID format"])
            /\ UNCHANGED req
     ELSE IF NoData(data)
       THEN /\ Respond("task_PUT", current_user, task_id, data, 400,
                       [message |-> "No input data provided"])
            /\ UNCHANGED req
     ELSE IF ~HasFields(data, {"is_completed"})
       THEN /\ Respond("task_PUT", current_user, task_id, data, 400,
                       [message |-> "Missing required fields"])
            /\ UNCHANGED req
     ELSE LET found == task_filter(ObjectId(task_id), current_user)
          IN  IF found = {}
                THEN /\ Respond("task_PUT", current_user, task_id, data, 404,
                                [message |-> "Task not found"])
                     /\ UNCHANGED req
                ELSE \E task \in found :
                       /\ req' = [req EXCEPT ![w] =
                                    [pc |-> "task_PUT_update", current_user |-> current_user,
                                     task_id |-> task_id, data |-> data, task |-> task]]
                       /\ UNCHANGED last
  /\ UNCHANGED <<users, templates, tasks, tokens, clock, nextOid>>

\* Lines 329-332: the fields the update writes.
task_update(data) == [is_completed |-> data.is_completed, updated_at |-> utcnow]

\* Lines 327-341: update_one, the modified_count test, the notification.
task_PUT_update(w) ==
  /\ req[w].pc = "task_PUT_update"
  /\ LET r == req[w]
         matched == task_filter(ObjectId(r.task_id), r.current_user)
         written == {Set(t, task_update(r.data)) : t \in matched}
     IN  /\ tasks' = (tasks \ matched) \cup written
         /\ IF modified_count(matched, written) = 0
              THEN RespondTask("task_PUT", r.current_user, r.task_id, r.data, 404,
                               [message |-> "Task not found"], r.task)
            ELSE IF \/ ~ObjectIdValid(r.task.assigned_by)
                    \/ ~ObjectIdValid(r.task.assigned_user)
                    \/ users_by_id(ObjectId(r.task.assigned_user)) = {}
              THEN RespondTask("task_PUT", r.current_user, r.task_id, r.data, 500,
                               [message |-> "'NoneType' object is not subscriptable"], r.task)
            ELSE LET assigned_to_user ==
                       CHOOSE u \in users_by_id(ObjectId(r.task.assigned_user)) : TRUE
                 IN  RespondTask("task_PUT", r.current_user, r.task_id, r.data, 200,
                                 [message |-> "Task updated successfully",
                                  notification |->
                                    <<"Task completed by ">> \o full_name(assigned_to_user)],
                                 r.task)
  /\ req' = [req EXCEPT ![w] = Idle]
  /\ UNCHANGED <<users, templates, tokens, clock, nextOid>>

\* Lines 343-346: find_one.
task_DELETE_find(w, current_user, task_id) ==
  /\ Dispatch(w)
  /\ current_user \in tokens
  /\ IF ~ObjectIdValid(task_id)
       THEN /\ Respond("task_DELETE", current_user, task_id, EmptyBody, 400,
                       [message |-> "Invalid task ID format"])
            /\ UNCHANGED req
     ELSE IF task_filter(ObjectId(task_id), current_user) = {}
       THEN /\ Respond("task_DELETE", current_user, task_id, EmptyBody, 404,
                       [message |-> "Task not found"])
            /\ UNCHANGED req
     ELSE /\ req' = [req EXCEPT ![w] =
                       [pc |-> "task_DELETE_delete", current_user |-> current_user,
                        task_id |-> task_id]]
          /\ UNCHANGED last
  /\ UNCHANGED <<users, templates, tasks, tokens, clock, nextOid>>

\* Lines 348-356: delete_one and the deleted_count test.
task_DELETE_delete(w) ==
  /\ req[w].pc = "task_DELETE_delete"
  /\ LET r == req[w]
         matched == task_filter(ObjectId(r.task_id), r.current_user)
     IN  /\ tasks' = tasks \ matched
         /\ IF deleted_count(matched) = 0
              THEN Respond("task_DELETE", r.current_user, r.task_id, EmptyBody, 404,
                           [message |-> "Task not found"])
              ELSE Respond("task_DELETE", r.current_user, r.task_id, EmptyBody, 200,
                           [message |-> "Task deleted successfully"])
  /\ req' = [req EXCEPT ![w] = Idle]
  /\ UNCHANGED <<users, templates, tokens, clock, nextOid>>

\* ----------------------------------------------------------------- team
\* The query without its $ne clause: db.users.find({}).
users_all(oid) == users

\* db.users.find({'_id': {'$ne': ObjectId(current_user)}})
users_except(oid) == {u \in users : u._id # oid}

\* Line 369, and the JSON provider's rendering of created_at.
serialize_user(user) ==
  With(user, [_id |-> Str(user._id), created_at |-> http_date(user.created_at)])

\* Lines 364-372.
get_users(current_user) ==
  /\ IdleWorker
  /\ current_user \in tokens
  /\ IF ~ObjectIdValid(current_user)
       THEN Respond("get_users", current_user, NoId, EmptyBody, 500,
                    [message |-> "is not a valid ObjectId"])
       ELSE Respond("get_users", current_user, NoId, EmptyBody, 200,
                    {serialize_user(u) : u \in users_except(ObjectId(current_user))})
  /\ UNCHANGED <<users, templates, tasks, tokens, clock, nextOid, req>>

\* ---------------------------------------------------------------- clock
\* Time passes between requests and between the store operations of one.
Tick ==
  /\ clock < MaxClock
  /\ clock' = clock + 1
  /\ UNCHANGED <<users, templates, tasks, tokens, nextOid, req, last>>

\* ------------------------------------------------------- specifications
Register == \E w \in Workers, data \in RegisterBodies : register_check(w, data)

RegisterInsert == \E w \in Workers : register_insert(w)

Login == \E data \in LoginBodies : login(data)

CreateTemplate == \E u \in tokens, data \in TemplateBodies : create_template(u, data)

GetAllTemplates == \E u \in tokens : get_all_templates(u)

TemplateGet == \E u \in tokens, id \in IdStrings(TemplateOids) : template_GET(u, id)

TemplatePut ==
  \E u \in tokens, id \in IdStrings(TemplateOids), data \in TemplateBodies :
    template_PUT(u, id, data)

TemplateDelete == \E u \in tokens, id \in IdStrings(TemplateOids) : template_DELETE(u, id)

CreateTask == \E u \in tokens, data \in TaskBodies : create_task(u, data)

GetTasks == \E u \in tokens : get_tasks(u)

TaskGet == \E u \in tokens, id \in IdStrings(TaskOids) : task_GET(u, id)

TaskPut ==
  \E w \in Workers, u \in tokens, id \in IdStrings(TaskOids), data \in TaskUpdateBodies :
    task_PUT_find(w, u, id, data)

TaskPutUpdate == \E w \in Workers : task_PUT_update(w)

TaskDelete ==
  \E w \in Workers, u \in tokens, id \in IdStrings(TaskOids) : task_DELETE_find(w, u, id)

TaskDeleteDelete == \E w \in Workers : task_DELETE_delete(w)

GetUsers == \E u \in tokens : get_users(u)

\* Requests are served concurrently by up to NumWorkers workers.
Next ==
  \/ Register
  \/ RegisterInsert
  \/ Login
  \/ CreateTemplate
  \/ GetAllTemplates
  \/ TemplateGet
  \/ TemplatePut
  \/ TemplateDelete
  \/ CreateTask
  \/ GetTasks
  \/ TaskGet
  \/ TaskPut
  \/ TaskPutUpdate
  \/ TaskDelete
  \/ TaskDeleteDelete
  \/ GetUsers
  \/ Tick

Spec == Init /\ [][Next]_vars

AllIdle == \A w \in Workers : req[w] = Idle

\* Requests are served one at a time: none starts while another is inside
\* its handler.
NextSeq ==
  \/ AllIdle /\ Register
  \/ RegisterInsert
  \/ AllIdle /\ Login
  \/ AllIdle /\ CreateTemplate
  \/ AllIdle /\ GetAllTemplates
  \/ AllIdle /\ TemplateGet
  \/ AllIdle /\ TemplatePut
  \/ AllIdle /\ TemplateDelete
  \/ AllIdle /\ CreateTask
  \/ AllIdle /\ GetTasks
  \/ AllIdle /\ TaskGet
  \/ AllIdle /\ TaskPut
  \/ TaskPutUpdate
  \/ AllIdle /\ TaskDelete
  \/ TaskDeleteDelete
  \/ AllIdle /\ GetUsers
  \/ Tick

SeqSpec == Init /\ [][NextSeq]_vars

\* The account endpoints alone: /register, /login, /team.
AccountNext ==
  \/ Register
  \/ RegisterInsert
  \/ Login
  \/ GetUsers
  \/ Tick

AccountSpec == Init /\ [][AccountNext]_vars

\* The same, with registrations processed one at a time: no registration
\* makes its existence check while another is between check and insert.
AccountSeqNext ==
  \/ PendingInserts = 0 /\ Register
  \/ RegisterInsert
  \/ Login
  \/ GetUsers
  \/ Tick

AccountSeqSpec == Init /\ [][AccountSeqNext]_vars

TypeOK ==
  /\ clock \in 0..MaxClock
  /\ nextOid.users \in 1..(MaxUsers + 1)
  /\ nextOid.templates \in 1..(MaxDocs + 1)
  /\ nextOid.tasks \in 1..(MaxDocs + 1)
  /\ \A u \in users : u._id \in UserOids
  /\ \A t \in templates : t._id \in TemplateOids
  /\ \A t \in tasks : t._id \in TaskOids
  /\ tokens \subseteq {Str(u._id) : u \in users}

\* =============================================================== claims
TemplateFields == {"template_name", "subject", "body"}

TaskFields == {"assigned_user", "task_date", "task_time", "task_msg"}

\* r is a request on /template/<id of t>.
OnTemplate(r, t) ==
  /\ r.op \in {"template_GET", "template_PUT", "template_DELETE"}
  /\ ObjectIdValid(r.id)
  /\ ObjectId(r.id) = t._id

\* r is a request on /task/<id of t>.
OnTask(r, t) ==
  /\ r.op \in {"task_GET", "task_PUT", "task_DELETE"}
  /\ ObjectIdValid(r.id)
  /\ ObjectId(r.id) = t._id

\* ------------------------------------------------------------------- C1
\* A step that changes or removes a stored template is a PUT or DELETE on
\* its id by its owner that returned 200.
C1_Unchanged ==
  \A t \in templates :
    t \notin templates' =>
      /\ last'.op \in {"template_PUT", "template_DELETE"}
      /\ last'.status = 200
      /\ last'.caller = t.user_id
      /\ ObjectId(last'.id) = t._id

\* GET /template lists only the caller's own templates.
C1_ListsOwn ==
  last.op = "get_all_templates" =>
    /\ last.status = 200
    /\ \A d \in last.body : d.user_id = last.caller
    /\ \A t \in templates : t.user_id # last.caller => serialize_template(t) \notin last.body

\* The answers to requests on the id of a stored template T: its owner's GET
\* is 200 with T; another user's GET or DELETE is 404, and another user's PUT
\* is 404 when its body has the three required fields and 400 when not.
C1_Responses ==
  /\ \A t \in templates :
       OnTemplate(last, t) =>
         IF last.caller = t.user_id
           THEN last.op = "template_GET" =>
                  last.status = 200 /\ last.body = serialize_template(t)
           ELSE last.status =
                  (IF last.op = "template_PUT" /\ ~HasFields(last.data, TemplateFields)
                     THEN 400 ELSE 404)
  /\ C1_ListsOwn

\* C1 (as amended): for distinct users A and B and a template T of A that A
\* has not deleted, B's GET and DELETE on T's id and B's PUT with the three
\* required fields return 404, B's PUT with an empty or incomplete body
\* returns 400, none of them changes T, A's GET returns 200 with T, and B's
\* GET /template never lists T.
C1_Isolation == [][C1_Unchanged /\ C1_Responses']_vars

\* B's well-formed PUT on A's stored template was answered 404.
C1_Witness ==
  \E t \in templates :
    /\ OnTemplate(last, t)
    /\ last.op = "template_PUT"
    /\ last.caller # t.user_id
    /\ HasFields(last.data, TemplateFields)
    /\ last.status = 404

C1_OriginalResponses ==
  /\ \A t \in templates :
       OnTemplate(last, t) =>
         IF last.caller = t.user_id
           THEN last.op = "template_GET" =>
                  last.status = 200 /\ last.body = serialize_template(t)
           ELSE last.status = 404
  /\ C1_ListsOwn

\* C1 as stated: every GET, PUT and DELETE by B on the id of A's template
\* returns 404 and leaves it unchanged.
C1_Original == [][C1_Unchanged /\ C1_OriginalResponses']_vars

\* ------------------------------------------------------------------- C2
\* A step that changes or removes a stored task is a PUT or DELETE on its id
\* by the user its assigned_user names, and returned 200.
C2_Unchanged ==
  \A t \in tasks :
    t \notin tasks' =>
      /\ last'.op \in {"task_PUT", "task_DELETE"}
      /\ last'.status = 200
      /\ last'.caller = t.assigned_user
      /\ ObjectId(last'.id) = t._id

\* GET /task lists only tasks assigned to the caller.
C2_ListsAssigned ==
  last.op = "get_tasks" =>
    /\ last.status = 200
    /\ \A d \in last.body : d.assigned_user = last.caller
    /\ \A t \in tasks : t.assigned_user # last.caller => Str(t._id) \notin {d._id : d \in last.body}

\* The answers to requests on the id of a stored task: the assignee's GET is
\* 200 with the task; anyone else's GET or DELETE is 404, and anyone else's
\* PUT is 404 when its body has is_completed and 400 when not.
C2_Responses ==
  /\ \A t \in tasks :
       OnTask(last, t) =>
         IF last.caller = t.assigned_user
           THEN last.op = "task_GET" =>
                  last.status = 200 /\ last.body = serialize_task(t)
           ELSE last.status =
                  (IF last.op = "task_PUT" /\ ~HasFields(last.data, {"is_completed"})
                     THEN 400 ELSE 404)
  /\ C2_ListsAssigned

\* C2 (as amended): for a task that A created with assigned_user = B, A and
\* B distinct, A's GET and DELETE on its id and A's PUT with is_completed
\* return 404, A's PUT with an empty body returns 400, none of them changes
\* the task, GET /task by A does not list it, and only B's requests read,
\* update or delete it.
C2_AssigneeOnly == [][C2_Unchanged /\ C2_Responses']_vars

\* t was created by A for another user B: its assigned_user is B's id string.
C2_ForAnother(t) ==
  \E b \in users : Str(b._id) = t.assigned_user /\ Str(b._id) # t.assigned_by

\* The assigner's well-formed PUT on a task assigned to someone else was
\* answered 404.
C2_Witness ==
  \E t \in tasks :
    /\ OnTask(last, t)
    /\ last.op = "task_PUT"
    /\ last.caller = t.assigned_by
    /\ C2_ForAnother(t)
    /\ HasFields(last.data, {"is_completed"})
    /\ last.status = 404

C2_OriginalResponses ==
  /\ \A t \in tasks :
       (OnTask(last, t) /\ last.caller = t.assigned_by /\ C2_ForAnother(t)) =>
         last.status = 404
  /\ C2_ListsAssigned

\* C2 as stated: every GET, PUT and DELETE by the assigner returns 404 and
\* leaves the task unchanged.
C2_Original == [][C2_Unchanged /\ C2_OriginalResponses']_vars

C4_Put(pre, v) ==
  /\ last.op = "task_PUT"
  /\ "task" \in DOMAIN last
  /\ last.task.is_completed = pre
  /\ last.data.is_completed = v

\* The notice names the assignee, who is the caller.
C4_Notice ==
  \E u \in users :
    /\ Str(u._id) = last.caller
    /\ Str(u._id) = last.task.assigned_user
    /\ last.body.notification = <<"Task completed by ", u.first_name, " ", u.last_name>>

\* 0 to 1: 200, the notice, and is_completed = 1 stored.
C4_FirstCompletion ==
  C4_Put(0, 1) =>
    /\ last.status = 200
    /\ C4_Notice
    /\ \E t \in tasks : t._id = last.task._id /\ t.is_completed = 1

\* 1 to 1: 404 exactly when the write changed nothing, that is when it carried
\* the updated_at the task already had; otherwise 200 and the notice again.
C4_Repeat ==
  C4_Put(1, 1) =>
    /\ "updated_at" \in DOMAIN last.task
    /\ last.status \in {200, 404}
    /\ last.status = 404 <=> last.task \in tasks
    /\ last.status = 200 =>
         /\ C4_Notice
         /\ \E t \in tasks :
              /\ t._id = last.task._id
              /\ t.is_completed = 1
              /\ t.updated_at[2] > last.task.updated_at[2]

\* C4 (as amended): the assignee's PUT of is_completed = 1 on a task whose
\* is_completed is 0 returns 200 with a notification naming the assignee and
\* stores 1; a following PUT of the same value returns 404 only if the clock
\* still reads the millisecond of the stored updated_at, and 200 with the
\* notification again once the clock has advanced.
C4_Completion == C4_FirstCompletion /\ C4_Repeat

\* The repeated PUT (1 to 1) was answered 200.
C4_Witness == C4_Put(1, 1) /\ last.status = 200

\* C4 as stated: the repeated PUT (1 to 1) returns 404.
C4_Original == C4_FirstCompletion /\ (C4_Put(1, 1) => last.status = 404)

\* ------------------------------------------------------------------- C5
\* This step answers `get' on the id that the previous response, a 201 to
\* `create', returned.
C5_Fetch(create, get) ==
  /\ last.op = create
  /\ last.status = 201
  /\ last'.op = get
  /\ last'.id = last.body.id

SameFields(data, body, fields) == \A f \in fields : f \in DOMAIN body /\ body[f] = data[f]

C5_Template ==
  (C5_Fetch("create_template", "template_GET") /\ last'.caller = last.caller) =>
    /\ last'.status = 200
    /\ SameFields(last.data, last'.body, TemplateFields)

C5_Task ==
  C5_Fetch("create_task", "task_GET") =>
    /\ last'.status = (IF last'.caller = last.data.assigned_user THEN 200 ELSE 404)
    /\ last'.status = 200 => SameFields(last.data, last'.body, TaskFields)

\* C5 (as amended): a template fetched by its creator with the id POST
\* /template returned comes back 200 with the submitted template_name,
\* subject and body.  A task fetched with the id POST /task returned comes
\* back 200, with the submitted assigned_user, task_date, task_time and
\* task_msg, to the caller whose id string is the submitted assigned_user
\* (the creator only when that is the creator's own id string), and 404 to
\* everyone else, its creator included.
C5_RoundTrip == [][C5_Template /\ C5_Task]_vars

\* A creator fetched the task they had assigned to themselves.
C5_Witness ==
  /\ last.op = "task_GET"
  /\ last.status = 200
  /\ last.body.assigned_by = last.caller
  /\ last.body.assigned_user = last.caller
  /\ last.body.task_msg = "m1"
  /\ "updated_at" \notin DOMAIN last.body

C5_TaskOriginal ==
  (C5_Fetch("create_task", "task_GET") /\ last'.caller = last.caller) =>
    /\ last'.status = 200
    /\ SameFields(last.data, last'.body, TaskFields)

\* C5 as stated: the creator's GET of a created template or task returns 200
\* with the submitted fields.
C5_Original == [][C5_Template /\ C5_TaskOriginal]_vars

\* ------------------------------------------------------------------- C6
\* C6: a login with a registered user's email and password returns 200 with
\* a token whose identity is that user's id; any other login returns 401
\* with the one message "Invalid credentials".
C6_Login ==
  (last.op = "login" /\ HasFields(last.data, {"email", "password"})) =>
    LET holders == {u \in users : /\ u.email = last.data.email
                                  /\ check_password_hash(u.password, last.data.password)}
    IN  /\ \A u \in holders :
             /\ last.status = 200
             /\ last.body.access_token.identity = Str(u._id)
        /\ holders = {} =>
             /\ last.status = 401
             /\ last.body = [message |-> "Invalid credentials"]

\* ------------------------------------------------------------------- C7
UniqueEmails == \A u, v \in users : u.email = v.email => u = v

RegisterFields == {"first_name", "last_name", "email", "password"}

\* A registration whose email a stored user has is answered 400 and adds no
\* user.
C7_Rejected ==
  \A w \in Workers, data \in RegisterBodies :
    ( /\ register_check(w, data)
      /\ HasFields(data, RegisterFields)
      /\ users_by_email(data.email) # {} )
    => last'.status = 400 /\ users' = users

\* An insert finds the email as unused as its check did.
C7_InsertFresh ==
  \A w \in Workers : register_insert(w) => users_by_email(req[w].data.email) = {}

\* C7: with registrations processed one at a time, a registration with a
\* stored email returns 400 and adds nothing, and no two users share an email.
C7_UniqueEmail == [][C7_Rejected /\ C7_InsertFresh /\ UniqueEmails']_vars

\* A registration was refused for its email.
C7_Witness ==
  /\ last.op = "register"
  /\ last.status = 400
  /\ last.body = [message |-> "Email already registered"]
  /\ users_by_email(last.data.email) # {}

\* ------------------------------------------------------------------- C8
\* C8: a registration that has passed its existence check inserts its user
\* and returns 201 whatever has been stored since, so two registrations of
\* one unused email that both check before either inserts both return 201
\* and leave two users with that email.
C8_Race ==
  [][\A w \in Workers :
       register_insert(w) =>
         /\ last'.status = 201
         /\ Cardinality(users') = Cardinality(users) + 1
         /\ \E u \in users' \ users : u.email = req[w].data.email]_vars

\* Two users share an email, the second just registered with 201.
C8_Witness ==
  /\ last.op = "register"
  /\ last.status = 201
  /\ \E u, v \in users : u # v /\ u.email = v.email /\ u.email = last.data.email

\* ------------------------------------------------------------------- C9
\* Documents of `before' still in `after' have the same values in `fields'.
C9_Kept(before, after, fields) ==
  \A d \in before : \A e \in after :
    e._id = d._id => \A f \in fields : f \in DOMAIN e /\ e[f] = d[f]

\* One document per _id.
C9_Keyed(coll) == \A d, e \in coll : d._id = e._id => d = e

\* A document that appears has the _id the store generated for it.
C9_Fresh(before, after, coll) ==
  \A e \in after : (\A d \in before : d._id # e._id) => e._id = NewOid(coll)

\* C9: no request changes the _id of a stored template or task, the user_id
\* of a template, or the assigned_by or assigned_user of a task.
C9_Immutable ==
  [][ /\ C9_Kept(templates, templates', {"user_id"})
      /\ C9_Kept(tasks, tasks', {"assigned_by", "assigned_user"})
      /\ C9_Keyed(templates') /\ C9_Keyed(tasks')
      /\ C9_Fresh(templates, templates', "templates")
      /\ C9_Fresh(tasks, tasks', "tasks") ]_vars

\* A template's owner has updated it.
C9_Witness ==
  \E t \in templates :
    /\ OnTemplate(last, t)
    /\ last.op = "template_PUT"
    /\ last.status = 200
    /\ "updated_at" \in DOMAIN t
    /\ t.user_id = last.caller

\* ------------------------------------------------------------------ C10
\* C10: GET /team returns every stored user but the caller, and no record
\* with the caller's id.
C10_Team ==
  last.op = "get_users" =>
    /\ last.status = 200
    /\ \A u \in users : Str(u._id) # last.caller => serialize_user(u) \in last.body
    /\ \A d \in last.body : d._id # last.caller

\* A caller got a team list with another user in it.
C10_Witness ==
  /\ last.op = "get_users"
  /\ last.status = 200
  /\ last.body # {}
  /\ \E u \in users : Str(u._id) = last.caller

====
